---- MODULE Spec2Model ----
(***************************************************************************)
(* A model of package logger (kiteggrad/logger): a wrapper around          *)
(* go.uber.org/zap's SugaredLogger.                                        *)
(*                                                                         *)
(* The heap of *Logger objects is the sequence loggers, the heap of        *)
(* zap.AtomicLevel cells is the sequence levels; a pointer is an index,    *)
(* 0 is nil.  A zap logger is immutable (With, WithOptions, Sugar and      *)
(* Desugar return copies), so it is modelled as a record value.  The parts *)
(* of zap the wrapper relies on (level parsing, the enabled check, the     *)
(* terminal behaviour of Panic and Fatal, hooks, caller skipping, the      *)
(* opening of output paths) are modelled by what zap does.                 *)
(***************************************************************************)
EXTENDS Integers, Sequences, FiniteSets, TLC

VARIABLES
    levels,        \* heap of zap.AtomicLevel cells: Seq of level names
    loggers,       \* heap of Logger structs: [zap, level]
    origin,        \* how logger i was made: by which function, from which receiver
                   \* (0 for New and NewNoop), the fields and caller skip it added,
                   \* the Config of New
    globalLogger,  \* the package variable globalLogger (a pointer)
    out,           \* what every sink has received: sink -> Seq of entries
    sigint,        \* SIGINT signals sent to the process and not yet delivered
    handler,       \* whether the process registered a SIGINT handler (signal.Notify)
    caught,        \* SIGINT signals delivered to the handler
    proc,          \* "running", "exited" (os.Exit), "panicked", "killed" (by a signal)
    hist,          \* the log, SetLevel, SetGlobal and L calls made so far, in order
    last           \* the most recent call of any kind and what it returned

vars == <<levels, loggers, origin, globalLogger, out, sigint, handler, caught, proc, hist, last>>

----------------------------------------------------------------------------
(* Bounds of the model: the Logger structs a run allocates and the calls it *)
(* records, for each specification                                         *)

LevelLoggers == 2
LevelCalls == 4
TraceLoggers == 2
TraceCalls == 3
FatalLoggers == 3
FatalCalls == 2
GlobalLoggers == 3
GlobalCalls == 3
NoopLoggers == 2
NoopCalls == 2
FieldLoggers == 4
FieldCalls == 3
SinkLoggers == 3
SinkCalls == 2
CallerLoggers == 3
CallerCalls == 1

----------------------------------------------------------------------------
(* zapcore.Level and its text form *)

\* zapcore levels in increasing order of severity
Levels == <<"debug", "info", "warn", "error", "dpanic", "panic", "fatal">>

Rank(l) == CHOOSE i \in DOMAIN Levels : Levels[i] = l

\* bytes.ToLower on the level names the model passes to SetLevel
ToLower(s) ==
    CASE s = "TRACE" -> "trace"
      [] s = "Trace" -> "trace"
      [] s = "DEBUG" -> "debug"
      [] s = "Info"  -> "info"
      [] s = "WARN"  -> "warn"
      [] s = "Error" -> "error"
      [] s = "FATAL" -> "fatal"
      [] OTHER       -> s

\* zapcore.Level.unmarshalText: the exact spellings zap accepts
unmarshalText(t) ==
    CASE t \in {"debug", "DEBUG"}   -> [ok |-> TRUE, lvl |-> "debug"]
      [] t \in {"info", "INFO", ""} -> [ok |-> TRUE, lvl |-> "info"]
      [] t \in {"warn", "WARN"}     -> [ok |-> TRUE, lvl |-> "warn"]
      [] t \in {"error", "ERROR"}   -> [ok |-> TRUE, lvl |-> "error"]
      [] t \in {"dpanic", "DPANIC"} -> [ok |-> TRUE, lvl |-> "dpanic"]
      [] t \in {"panic", "PANIC"}   -> [ok |-> TRUE, lvl |-> "panic"]
      [] t \in {"fatal", "FATAL"}   -> [ok |-> TRUE, lvl |-> "fatal"]
      [] OTHER                      -> [ok |-> FALSE, lvl |-> "info"]

\* zapcore.Level.UnmarshalText: the text as given, then lower-cased
UnmarshalText(t) ==
    IF unmarshalText(t).ok THEN unmarshalText(t) ELSE unmarshalText(ToLower(t))

----------------------------------------------------------------------------
(* zap loggers *)

\* const doNothingOnFatal zapcore.CheckWriteAction = 100
doNothingOnFatal == 100

\* zap.Open's reading of an output path: "stdout" and "stderr" name the
\* process's standard streams, anything else is a file
OpenPath(p) ==
    CASE p = "stdout" -> "os.Stdout"
      [] p = "stderr" -> "os.Stderr"
      [] OTHER        -> p

\* paths zap cannot open make zapCfg.Build fail
Openable(p) == p # "missing/dir/x.log"

Sinks == {"os.Stdout", "os.Stderr", "a.log", "b.log"}

\* New: outputPaths built from the configuration
OutputPaths(cfg) ==
    (IF ~cfg.DisableStdOut THEN <<"stdout">> ELSE << >>) \o cfg.Files

\* New: levelEncoder (coloured unless DisableColor)
LevelEncoder(cfg) == IF cfg.DisableColor THEN "capital" ELSE "capitalColor"

NewInitialLevelInfo == "info"

\* New: level := zap.NewAtomicLevelAt(zap.DebugLevel)
NewInitialLevel == "debug"

NewCallerSkipNone == 1 - 1

\* New: zap.AddCallerSkip(1), skipping the wrapper's own method
NewCallerSkip == 1

NewOnFatalUnset == doNothingOnFatal - doNothingOnFatal

\* New: zap.OnFatal(doNothingOnFatal)
NewOnFatal == doNothingOnFatal

\* The zap.Logger New builds.  cell is the AtomicLevel the core reads, self is
\* the heap index the Logger gets: the hook's closure logs through variable z,
\* which holds this logger when the hook runs.
NewZap(cfg, cell, self) ==
    [ core       |-> "io",
      cell       |-> cell,
      paths      |-> OutputPaths(cfg),
      encoder    |-> LevelEncoder(cfg),
      fields     |-> << >>,
      addCaller  |-> TRUE,
      callerSkip |-> NewCallerSkip,
      onFatal    |-> NewOnFatal,
      hook       |-> self ]

\* zap.NewNop(): a core that is never enabled, no caller, no OnFatal, no hooks
NewNop ==
    [ core       |-> "nop",
      cell       |-> 0,
      paths      |-> << >>,
      encoder    |-> "none",
      fields     |-> << >>,
      addCaller  |-> FALSE,
      callerSkip |-> 0,
      onFatal    |-> 0,
      hook       |-> 0 ]

\* (*zap.Logger).Sugar and (*zap.SugaredLogger).Desugar
Sugar(z)   == [z EXCEPT !.callerSkip = @ + 2]
Desugar(z) == [z EXCEPT !.callerSkip = @ - 2]

\* (*zap.Logger).With
With(z, fs) == [z EXCEPT !.fields = @ \o fs]

\* zap.AddCallerSkip
AddCallerSkip(z, n) == [z EXCEPT !.callerSkip = @ + n]

----------------------------------------------------------------------------
(* Messages: a message is a sequence of tokens, "\n" being the line break *)

RECURSIVE Sprintln(_)
\* fmt.Sprintln: the operands separated by spaces, then a line break
Sprintln(args) ==
    IF args = << >> THEN <<"\n">>
    ELSE IF Len(args) = 1 THEN <<args[1], "\n">>
    ELSE <<args[1], " ">> \o Sprintln(Tail(args))

\* fmt.Sprint of string operands: no space is added between strings
Sprint(args) == args

RECURSIVE Sprintf(_, _)
\* fmt.Sprintf: every %v verb replaced by the next operand
Sprintf(format, args) ==
    IF format = << >> THEN << >>
    ELSE IF format[1] = "%v" /\ args # << >>
         THEN <<args[1]>> \o Sprintf(Tail(format), Tail(args))
         ELSE <<format[1]>> \o Sprintf(Tail(format), args)

\* sprintln returns the result of fmt.Sprintln without the trailing \n
sprintln(args) == LET msg == Sprintln(args) IN SubSeq(msg, 1, Len(msg) - 1)

\* zap's getMessage: the template alone, the formatted template, or Sprint
getMessage(template, fmtArgs) ==
    IF fmtArgs = << >> THEN template
    ELSE IF template # << >> THEN Sprintf(template, fmtArgs)
    ELSE Sprint(fmtArgs)

----------------------------------------------------------------------------
(* The wrapper's logging methods *)

Methods ==
    { "Debug", "Debugf", "Debugln", "Info", "Infof", "Infoln",
      "Warn", "Warnf", "Warnln", "Warning", "Warningf", "Warningln",
      "Error", "Errorf", "Errorln", "Fatal", "Fatalf", "Fatalln",
      "Panic", "Panicf", "Panicln", "Print", "Printf", "Println" }

\* the zap level each wrapper method logs at
MethodLevel(m) ==
    CASE m \in {"Debug", "Debugf", "Debugln"}       -> "debug"
      [] m \in {"Info", "Infof", "Infoln"}          -> "info"
      [] m \in {"Warn", "Warnf", "Warnln"}          -> "warn"
      [] m \in {"Warning", "Warningf", "Warningln"} -> "warn"
      [] m \in {"Error", "Errorf", "Errorln"}       -> "error"
      [] m \in {"Fatal", "Fatalf", "Fatalln"}       -> "fatal"
      [] m \in {"Panic", "Panicf", "Panicln"}       -> "panic"
      [] m \in {"Print", "Printf", "Println"}       -> "info"

FMethods  == {"Debugf", "Infof", "Warnf", "Warningf", "Errorf", "Fatalf", "Panicf", "Printf"}
LnMethods == {"Debugln", "Infoln", "Warnln", "Warningln", "Errorln", "Fatalln", "Panicln", "Println"}

\* the message the wrapper method hands to zap and zap makes of it
MethodMessage(m, format, args) ==
    IF m \in FMethods THEN getMessage(format, args)
    ELSE IF m \in LnMethods THEN getMessage(<< >>, <<sprintln(args)>>)[1]
    ELSE getMessage(<< >>, args)

\* The call stack at zap's Logger.check, innermost frame first, when user code
\* with frames ustack calls a wrapper method: check and Check of zap/logger.go,
\* the SugaredLogger's log and level method, the wrapper's method of
\* logger/log.go, the user's frames, the Go runtime.
ZapInternal == <<"zap/logger.go", "zap/logger.go">>

CallStack(ustack) ==
    ZapInternal \o <<"zap/sugar.go", "zap/sugar.go", "logger/log.go">> \o ustack
        \o <<"runtime/proc.go">>

\* The stack when the fatal hook of New logs its own error: zap's frames, the
\* hook's closure, zapcore's hooked core and entry, then the frames of the
\* Fatal call being written (the call's stack below Logger.Check).
HookStack(ustack) ==
    ZapInternal \o <<"zap/sugar.go", "zap/sugar.go", "logger/log.go", "zapcore/hook.go",
                     "zapcore/entry.go">> \o Tail(Tail(CallStack(ustack)))

\* zap's caller annotation: the frame callerSkip above Logger.Check's caller
Caller(z, stack) ==
    LET k == Len(ZapInternal) + 1 + z.callerSkip IN
    IF ~z.addCaller THEN "none"
    ELSE IF k \in DOMAIN stack THEN stack[k] ELSE "undefined"

\* core.Enabled: the io core compares with its AtomicLevel, the nop core never is
CoreEnabled(z, lvl) ==
    /\ z.core = "io"
    /\ Rank(lvl) >= Rank(levels[z.cell])

\* the entry zap encodes for one call
Entry(z, lvl, msg, stack, id, i) ==
    [ id      |-> id,
      lg      |-> i,
      level   |-> lvl,
      encoder |-> z.encoder,
      msg     |-> msg,
      fields  |-> z.fields,
      caller  |-> Caller(z, stack) ]

RECURSIVE WriteAll(_, _, _)
\* the multi write syncer: the entry goes to every opened output path in turn
WriteAll(o, paths, e) ==
    IF paths = << >> THEN o
    ELSE WriteAll([o EXCEPT ![OpenPath(paths[1])] = Append(@, e)], Tail(paths), e)

\* the hook of New sends SIGINT for entries of this level
HookSignals(lvl) == lvl = "fatal"

\* zap's terminal behaviour after a Fatal entry: an unset OnFatal
\* (WriteThenNoop) is replaced by WriteThenFatal; an action zap does not know
\* does nothing
FatalExits(z) == z.onFatal = 0

----------------------------------------------------------------------------
(* Calls and what they return *)

Ev(op, lg, name, keys, n, ok, res) ==
    [op |-> op, lg |-> lg, name |-> name, keys |-> keys, n |-> n, ok |-> ok, res |-> res]

NoCall == Ev("none", 0, "", << >>, 0, TRUE, 0)

NoCfg == [DisableStdOut |-> TRUE, DisableColor |-> TRUE, Files |-> << >>]

Made(by, from, keys, skip, cfg) ==
    [by |-> by, from |-> from, keys |-> keys, skip |-> skip, cfg |-> cfg]

\* the operands and the format the model's log calls pass
LogArgs   == <<"hello", "world">>
LogFormat == <<"%v", "=", "%v">>

\* all orders in which Go may range over a map with key set K
Orders(K) ==
    { f \in [1..Cardinality(K) -> K] : \A a, b \in 1..Cardinality(K) : a # b => f[a] # f[b] }

\* The state after package initialisation: var globalLogger = NewNoop()
Init ==
    /\ levels = <<"info">>
    /\ loggers = <<[zap |-> Sugar(NewNop), level |-> 1]>>
    /\ origin = <<Made("NewNoop", 0, << >>, 0, NoCfg)>>
    /\ globalLogger = 1
    /\ out = [s \in Sinks |-> << >>]
    /\ sigint = 0
    /\ handler = FALSE
    /\ caught = 0
    /\ proc = "running"
    /\ hist = << >>
    /\ last = NoCall

\* New: the Logger struct returned, its level field being the AtomicLevel
\* handed to zap's configuration
NewLogger(cfg, cell, self) == [zap |-> Sugar(NewZap(cfg, cell, self)), level |-> cell]

\* New(cfg): fails when zap cannot open an output path
DoNew(cfg) ==
    /\ proc = "running"
    /\ IF \A k \in DOMAIN OutputPaths(cfg) : Openable(OutputPaths(cfg)[k])
       THEN LET cell == Len(levels) + 1
                self == Len(loggers) + 1
            IN /\ levels' = Append(levels, NewInitialLevel)
               /\ loggers' = Append(loggers, NewLogger(cfg, cell, self))
               /\ origin' = Append(origin, Made("New", 0, << >>, 0, cfg))
               /\ last' = Ev("New", 0, "", << >>, 0, TRUE, self)
       ELSE /\ last' = Ev("New", 0, "", << >>, 0, FALSE, 0)
            /\ UNCHANGED <<levels, loggers, origin>>
    /\ UNCHANGED <<globalLogger, out, sigint, handler, caught, proc, hist>>

\* NewNoop(): zap.NewNop() and a fresh AtomicLevel (info)
DoNewNoop ==
    /\ proc = "running"
    /\ levels' = Append(levels, "info")
    /\ loggers' = Append(loggers, [zap |-> Sugar(NewNop), level |-> Len(levels) + 1])
    /\ origin' = Append(origin, Made("NewNoop", 0, << >>, 0, NoCfg))
    /\ last' = Ev("NewNoop", 0, "", << >>, 0, TRUE, Len(loggers) + 1)
    /\ UNCHANGED <<globalLogger, out, sigint, handler, caught, proc, hist>>

TraceAliasLower(lvl) == IF lvl = "trace" THEN "debug" ELSE lvl

\* SetLevel: trace is an alias of debug
TraceAlias(lvl) == IF lvl = "trace" \/ lvl = "TRACE" THEN "debug" ELSE lvl

\* SetLevel(lvl): sets the logger's AtomicLevel when zap can parse the name
DoSetLevel(i, lvl) ==
    LET r == UnmarshalText(TraceAlias(lvl)) IN
    /\ proc = "running"
    /\ i \in DOMAIN loggers
    /\ levels' = IF r.ok THEN [levels EXCEPT ![loggers[i].level] = r.lvl] ELSE levels
    /\ last' = Ev("SetLevel", i, lvl, << >>, 0, TRUE, 0)
    /\ hist' = Append(hist, last')
    /\ UNCHANGED <<loggers, origin, globalLogger, out, sigint, handler, caught, proc>>

\* clone: a new Logger struct with the same zap logger and AtomicLevel
clone(l) == [zap |-> l.zap, level |-> l.level]

withFieldsInPlace(i, fields) ==
    LET l == [loggers[i] EXCEPT !.zap = Sugar(With(Desugar(@), fields))]
    IN Append([loggers EXCEPT ![i] = l], l)

\* withFields: the heap after the call; the clone, with the fields added to its
\* zap logger, is a new struct and the receiver is not touched
withFields(i, fields) ==
    Append(loggers, [clone(loggers[i]) EXCEPT !.zap = Sugar(With(Desugar(@), fields))])

\* WithCallerSkip: the heap after the call
WithCallerSkip(i, skip) ==
    Append(loggers, [clone(loggers[i]) EXCEPT !.zap = Sugar(AddCallerSkip(Desugar(@), skip))])

\* a method that returns a new Logger derived from logger i
Derive(op, i, heap, keys, skip) ==
    /\ proc = "running"
    /\ i \in DOMAIN loggers
    /\ loggers' = heap
    /\ origin' = Append(origin, Made(op, i, keys, skip, origin[i].cfg))
    /\ last' = Ev(op, i, "", keys, skip, TRUE, Len(heap))
    /\ UNCHANGED <<levels, globalLogger, out, sigint, handler, caught, proc, hist>>

\* WithField(key, value)
DoWithField(i, key) ==
    /\ i \in DOMAIN loggers
    /\ Derive("WithField", i, withFields(i, <<key>>), <<key>>, 0)

\* WithError(err) is WithField("error", err)
DoWithError(i) ==
    /\ i \in DOMAIN loggers
    /\ Derive("WithError", i, withFields(i, <<"error">>), <<"error">>, 0)

\* WithFields(fields): the map is ranged over in an order Go chooses
DoWithFields(i, K) ==
    /\ i \in DOMAIN loggers
    /\ \E order \in Orders(K) : Derive("WithFields", i, withFields(i, order), order, 0)

\* WithCallerSkip(skip)
DoWithCallerSkip(i, skip) ==
    /\ i \in DOMAIN loggers
    /\ Derive("WithCallerSkip", i, WithCallerSkip(i, skip), << >>, skip)

DoSetGlobalOnce(i) ==
    /\ proc = "running"
    /\ i \in {0} \cup DOMAIN loggers
    /\ globalLogger' = IF globalLogger = 1 THEN i ELSE globalLogger
    /\ last' = Ev("SetGlobal", i, "", << >>, 0, TRUE, 0)
    /\ hist' = Append(hist, last')
    /\ UNCHANGED <<levels, loggers, origin, out, sigint, handler, caught, proc>>

\* SetGlobal(l)
DoSetGlobal(i) ==
    /\ proc = "running"
    /\ i \in {0} \cup DOMAIN loggers
    /\ globalLogger' = i
    /\ last' = Ev("SetGlobal", i, "", << >>, 0, TRUE, 0)
    /\ hist' = Append(hist, last')
    /\ UNCHANGED <<levels, loggers, origin, out, sigint, handler, caught, proc>>

\* L()
DoL ==
    /\ proc = "running"
    /\ last' = Ev("L", 0, "", << >>, 0, TRUE, globalLogger)
    /\ hist' = Append(hist, last')
    /\ UNCHANGED <<levels, loggers, origin, globalLogger, out, sigint, handler, caught, proc>>

\* the outcome of a Go panic: the caller recovers it or the process dies
Panicked(recovered) == IF recovered THEN "running" ELSE "panicked"

\* A logging method of logger i, called from user code with frames ustack.
\* zap writes the entry to the cores when the level is enabled, the hooked core
\* of New then runs the hook, and last comes the terminal behaviour of the
\* level (Panic panics and Fatal acts as OnFatal says, enabled or not).
\* killOK is whether syscall.Kill succeeds, recovered whether the caller
\* recovers a panic.  The hook's own error entry is logged through zap
\* logger z of New, not through a Logger (lg 0).
DoLog(i, m, ustack, killOK, recovered) ==
    LET z         == loggers[i].zap
        lvl       == MethodLevel(m)
        id        == Len(hist) + 1
        msg       == MethodMessage(m, LogFormat, LogArgs)
        willWrite == CoreEnabled(z, lvl)
        o1        == IF willWrite
                     THEN WriteAll(out, z.paths, Entry(z, lvl, msg, CallStack(ustack), id, i))
                     ELSE out
        hooked    == willWrite /\ z.hook # 0 /\ HookSignals(lvl)
        ez        == Sugar(With(Desugar(loggers[z.hook].zap), <<"error">>))
        o2        == IF hooked /\ ~killOK /\ CoreEnabled(ez, "error")
                     THEN WriteAll(o1, ez.paths,
                                   Entry(ez, "error", <<"failed to syscall.SIGINT on FATAL()">>,
                                         HookStack(ustack), id, 0))
                     ELSE o1
    IN
    /\ proc = "running"
    /\ i \in DOMAIN loggers
    /\ out' = o2
    /\ sigint' = IF hooked /\ killOK THEN sigint + 1 ELSE sigint
    /\ proc' = IF hooked /\ ~killOK THEN "exited"
               ELSE IF lvl = "panic" THEN Panicked(recovered)
               ELSE IF lvl = "fatal" /\ FatalExits(z) THEN "exited"
               ELSE "running"
    /\ last' = Ev("log", i, m, ustack, 0, killOK, 0)
    /\ hist' = Append(hist, last')
    /\ UNCHANGED <<levels, loggers, origin, globalLogger, handler, caught>>

\* A logging method called through L() while globalLogger is nil: the method
\* dereferences its nil receiver
DoLogNil(m, recovered) ==
    /\ proc = "running"
    /\ globalLogger = 0
    /\ proc' = Panicked(recovered)
    /\ last' = Ev("log", 0, m, << >>, 0, TRUE, 0)
    /\ hist' = Append(hist, last')
    /\ UNCHANGED <<levels, loggers, origin, globalLogger, out, sigint, handler, caught>>

\* signal.Notify(term, syscall.SIGINT), as the program's main or test does
DoNotify ==
    /\ proc = "running"
    /\ ~handler
    /\ handler' = TRUE
    /\ UNCHANGED <<levels, loggers, origin, globalLogger, out, sigint, caught, proc, hist, last>>

\* The kernel delivers a pending SIGINT: to the registered channel, or, with
\* no handler registered, the Go runtime ends the process
DoDeliver ==
    /\ proc = "running"
    /\ sigint > 0
    /\ sigint' = sigint - 1
    /\ IF handler
       THEN caught' = caught + 1 /\ proc' = proc
       ELSE caught' = caught /\ proc' = "killed"
    /\ UNCHANGED <<levels, loggers, origin, globalLogger, out, handler, hist, last>>

----------------------------------------------------------------------------
(* Inputs *)

CfgDefault == [DisableStdOut |-> FALSE, DisableColor |-> FALSE, Files |-> << >>]
CfgFile    == [DisableStdOut |-> TRUE,  DisableColor |-> TRUE,  Files |-> <<"a.log">>]
CfgBoth    == [DisableStdOut |-> FALSE, DisableColor |-> TRUE,  Files |-> <<"a.log", "b.log">>]
CfgSilent  == [DisableStdOut |-> TRUE,  DisableColor |-> FALSE, Files |-> << >>]
CfgStdFile == [DisableStdOut |-> TRUE,  DisableColor |-> FALSE, Files |-> <<"stdout">>]
CfgMissing == [DisableStdOut |-> TRUE,  DisableColor |-> FALSE, Files |-> <<"missing/dir/x.log">>]

FatalMethods == {"Fatal", "Fatalf", "Fatalln"}
PanicMethods == {"Panic", "Panicf", "Panicln"}

\* whether Kill can fail matters to Fatal calls only, recovery to panics only
KillOutcomes(m) == IF m \in FatalMethods THEN BOOLEAN ELSE {TRUE}
Recoveries(m)   == IF m \in PanicMethods THEN BOOLEAN ELSE {FALSE}

\* the loggers user code made itself (not the package's initial one)
Own == DOMAIN loggers \ {1}

----------------------------------------------------------------------------
(* What the calls of hist say about a logger *)

RECURSIVE Root(_)
\* the logger made by New or NewNoop that logger i descends from
Root(i) == IF origin[i].from = 0 THEN i ELSE Root(origin[i].from)

ByNew(i) == i # 0 /\ origin[Root(i)].by = "New"

Max(S) == CHOOSE x \in S : \A y \in S : y <= x

\* the sinks that hold an entry of call k
SinksOf(k) == { s \in Sinks : \E j \in DOMAIN out[s] : out[s][j].id = k }

\* sink s as <<call, level>> pairs
Lines(s) == [j \in DOMAIN out[s] |-> <<out[s][j].id, out[s][j].level>>]

\* whether an output path of logger i is sink s
WritesTo(i, s) == \E p \in DOMAIN loggers[i].zap.paths : OpenPath(loggers[i].zap.paths[p]) = s

----------------------------------------------------------------------------
(* Level changes: New, SetLevel and the logging methods *)

LevelNames   == {"debug", "error", "Info"}
LevelMethods == {"Debug", "Errorf", "Fatal", "Panic"}

NextLevel ==
    \/ Len(loggers) < LevelLoggers /\ DoNew(CfgFile)
    \/ /\ Len(hist) < LevelCalls
       /\ \E i \in Own, n \in LevelNames : DoSetLevel(i, n)
    \/ /\ Len(hist) < LevelCalls
       /\ \E i \in Own, m \in LevelMethods :
             \E ok \in KillOutcomes(m) : DoLog(i, m, <<"app/main.go">>, ok, FALSE)

SpecLevel == Init /\ [][NextLevel]_vars

\* the level a valid level name stands for
NamedLevel(n) ==
    CASE n \in {"debug", "DEBUG"}   -> "debug"
      [] n \in {"info", "Info"}     -> "info"
      [] n \in {"error", "Error"}   -> "error"
      [] n \in {"fatal", "FATAL"}   -> "fatal"

\* the SetLevel calls made before call k on the loggers that share r's level
SetsBefore(r, k) ==
    { j \in 1..(k - 1) : hist[j].op = "SetLevel" /\ Root(hist[j].lg) = r }

\* the level the most recent SetLevel before call k set, debug without one
LevelInForce(r, k) ==
    IF SetsBefore(r, k) = {} THEN "debug"
    ELSE NamedLevel(hist[Max(SetsBefore(r, k))].name)

\* call k is a log call of a logger of New at or above the level in force
Passes(k) ==
    /\ hist[k].op = "log"
    /\ ByNew(hist[k].lg)
    /\ Rank(MethodLevel(hist[k].name)) >= Rank(LevelInForce(Root(hist[k].lg), k))

\* call k is a Fatal call whose SIGINT could not be sent, made while the error
\* level was enabled
KillFailed(k) ==
    /\ hist[k].op = "log"
    /\ ByNew(hist[k].lg)
    /\ hist[k].name \in FatalMethods
    /\ ~hist[k].ok
    /\ Rank("error") >= Rank(LevelInForce(Root(hist[k].lg), k))

RECURSIVE OneLinePerCall(_, _)
\* one line for each of the first k calls that passes and writes to s
OneLinePerCall(s, k) ==
    IF k = 0 THEN << >>
    ELSE OneLinePerCall(s, k - 1)
         \o (IF Passes(k) /\ WritesTo(hist[k].lg, s)
             THEN <<<<k, MethodLevel(hist[k].name)>>>> ELSE << >>)

RECURSIVE LinesPerCall(_, _)
\* the same, with the error line of a Fatal call whose SIGINT failed
LinesPerCall(s, k) ==
    IF k = 0 THEN << >>
    ELSE LinesPerCall(s, k - 1)
         \o (IF Passes(k) /\ WritesTo(hist[k].lg, s)
             THEN <<<<k, MethodLevel(hist[k].name)>>>> ELSE << >>)
         \o (IF KillFailed(k) /\ WritesTo(hist[k].lg, s)
             THEN <<<<k, "error">>>> ELSE << >>)

\* C1 as stated: every sink holds exactly one line for each log call of a
\* logger of New made at or above the level the most recent SetLevel set
\* (debug without one), in call order, and nothing else.
C1_OneLinePerPassingCall ==
    \A s \in Sinks : Lines(s) = OneLinePerCall(s, Len(hist))

\* C1 amended: as C1, but a Fatal call whose SIGINT cannot be sent writes a
\* second line, the hook's error entry, when the error level is enabled.
C1_LinesFollowLevel ==
    \A s \in Sinks : Lines(s) = LinesPerCall(s, Len(hist))

\* C1 witness: a call suppressed by SetLevel("error") and, after
\* SetLevel("Info"), a call that is written
C1_Witness ==
    /\ Len(hist) = 4
    /\ hist[1].op = "SetLevel" /\ hist[1].name = "error"
    /\ hist[2].op = "log" /\ hist[2].name = "Debug"
    /\ hist[3].op = "SetLevel" /\ hist[3].name = "Info" /\ hist[3].lg = hist[1].lg
    /\ hist[4].op = "log" /\ hist[4].name = "Errorf" /\ hist[4].lg = hist[1].lg
    /\ Lines("a.log") = <<<<4, "error">>>>

----------------------------------------------------------------------------
(* The trace alias *)

TraceNames   == {"error", "debug", "trace", "TRACE", "Trace"}
TraceMethods == {"Debugln", "Info"}

NextTrace ==
    \/ Len(loggers) < TraceLoggers /\ DoNew(CfgFile)
    \/ /\ Len(hist) < TraceCalls
       /\ \E i \in Own, n \in TraceNames : DoSetLevel(i, n)
    \/ /\ Len(hist) < TraceCalls
       /\ \E i \in Own, m \in TraceMethods : DoLog(i, m, <<"app/main.go">>, TRUE, FALSE)

SpecTrace == Init /\ [][NextTrace]_vars

\* the step is a call of SetLevel with a trace name
TraceStep == hist' # hist /\ last'.op = "SetLevel" /\ last'.name \in {"trace", "TRACE"}

\* the most recent SetLevel before log call k of a logger of New had a trace name
AfterTrace(k) ==
    /\ hist[k].op = "log"
    /\ ByNew(hist[k].lg)
    /\ SetsBefore(Root(hist[k].lg), k) # {}
    /\ hist[Max(SetsBefore(Root(hist[k].lg), k))].name \in {"trace", "TRACE"}

\* C7: SetLevel("trace") and SetLevel("TRACE") do what SetLevel("debug") does,
\* they set the logger's level to debug and change nothing else, and every
\* log call made while that level stands is written to the logger's outputs.
C7_TraceIsDebug ==
    /\ [][TraceStep =>
            /\ levels' = [levels EXCEPT ![loggers[last'.lg].level] = "debug"]
            /\ UNCHANGED <<loggers, out, globalLogger, sigint, proc>>]_vars
    /\ [](\A k \in DOMAIN hist :
            AfterTrace(k) => SinksOf(k) = { s \in Sinks : WritesTo(hist[k].lg, s) })

\* C7 witness: SetLevel("TRACE") after SetLevel("error") lets a Debugln through
C7_Witness ==
    /\ Len(hist) = 3
    /\ hist[1].op = "SetLevel" /\ hist[1].name = "error"
    /\ hist[2].op = "SetLevel" /\ hist[2].name = "TRACE" /\ hist[2].lg = hist[1].lg
    /\ hist[3].op = "log" /\ hist[3].name = "Debugln" /\ hist[3].lg = hist[1].lg
    /\ Lines("a.log") = <<<<3, "debug">>>>

----------------------------------------------------------------------------
(* Fatal calls and SIGINT *)

FatalLogMethods == {"Fatal", "Fatalf", "Fatalln", "Debugln", "Error", "Panicf"}

NextFatal ==
    \/ Len(loggers) < FatalLoggers /\ DoNew(CfgFile)
    \/ Len(loggers) < FatalLoggers /\ \E i \in Own : DoWithField(i, "key")
    \/ /\ Len(hist) < FatalCalls
       /\ \E i \in Own : DoSetLevel(i, "FATAL")
    \/ /\ Len(hist) < FatalCalls
       /\ \E i \in Own, m \in FatalLogMethods :
             \E ok \in KillOutcomes(m) : DoLog(i, m, <<"app/main.go">>, ok, TRUE)
    \/ DoNotify
    \/ DoDeliver

SpecFatal == Init /\ [][NextFatal]_vars

\* the step is a call of a logging method of a logger (not through a nil one)
LogStep == hist' # hist /\ last'.op = "log" /\ last'.lg # 0

----------------------------------------------------------------------------
(* The global logger *)

GlobalMethods == {"Info", "Fatal"}

Next ==
    \/ Len(loggers) < GlobalLoggers /\ DoNew(CfgFile)
    \/ Len(loggers) < GlobalLoggers /\ DoNewNoop
    \/ /\ Len(hist) < GlobalCalls
       /\ \E i \in {0} \cup DOMAIN loggers : DoSetGlobal(i)
    \/ Len(hist) < GlobalCalls /\ DoL
    \/ /\ Len(hist) < GlobalCalls
       /\ globalLogger # 0
       /\ \E m \in GlobalMethods : DoLog(globalLogger, m, <<"app/main.go">>, TRUE, FALSE)
    \/ /\ Len(hist) < GlobalCalls
       /\ DoLogNil("Info", FALSE)

Spec == Init /\ [][Next]_vars

\* the SetGlobal calls made before call k
SetGlobalsBefore(k) == { j \in 1..(k - 1) : hist[j].op = "SetGlobal" }

\* the logger that is current at call k: the argument of the most recent
\* SetGlobal, the logger of package initialisation without one
CurrentAt(k) ==
    IF SetGlobalsBefore(k) = {} THEN 1 ELSE hist[Max(SetGlobalsBefore(k))].lg

\* C3: every L() returns the logger passed to the most recent SetGlobal, or
\* the NewNoop logger of package initialisation when there was none; SetGlobal
\* changes no logger, no level and no output.
C3_GlobalIsLastSet ==
    /\ [](\A k \in DOMAIN hist : hist[k].op = "L" =>
            /\ hist[k].res = CurrentAt(k)
            /\ (SetGlobalsBefore(k) = {} => origin[hist[k].res].by = "NewNoop"))
    /\ [][(hist' # hist /\ last'.op = "SetGlobal") =>
            UNCHANGED <<loggers, levels, out, sigint, proc>>]_vars

\* C3 witness: L() after two SetGlobal calls returns the second logger
C3_Witness ==
    /\ Len(hist) = 3
    /\ hist[1].op = "SetGlobal" /\ hist[1].lg = 2
    /\ hist[2].op = "SetGlobal" /\ hist[2].lg = 3
    /\ hist[3].op = "L" /\ hist[3].res = 3

----------------------------------------------------------------------------
(* The no-op logger *)

NextNoop ==
    \/ Len(loggers) < NoopLoggers /\ DoNewNoop
    \/ /\ Len(hist) < NoopCalls
       /\ \E i \in DOMAIN loggers : DoSetLevel(i, "debug")
    \/ /\ Len(hist) < NoopCalls
       /\ \E i \in DOMAIN loggers, m \in Methods :
             \E rec \in Recoveries(m) : DoLog(i, m, <<"app/main.go">>, TRUE, rec)

SpecNoop == Init /\ [][NextNoop]_vars

\* C4: a logging method of a logger of NewNoop writes nothing, sends no
\* signal and leaves the process running.
C4_NoopDoesNothing ==
    (last.op = "log" /\ last.lg # 0 /\ origin[Root(last.lg)].by = "NewNoop") =>
        /\ \A s \in Sinks : out[s] = << >>
        /\ sigint = 0
        /\ proc = "running"

----------------------------------------------------------------------------
(* Fields *)

NextFields ==
    \/ Len(loggers) < FieldLoggers /\ DoNew(CfgFile)
    \/ Len(loggers) < FieldLoggers /\ \E i \in Own : DoWithField(i, "key")
    \/ Len(loggers) < FieldLoggers /\ \E i \in Own : DoWithError(i)
    \/ Len(loggers) < FieldLoggers /\ \E i \in Own : DoWithFields(i, {"a", "b"})
    \/ /\ Len(hist) < FieldCalls
       /\ \E i \in Own : DoLog(i, "Warn", <<"app/main.go">>, TRUE, FALSE)

SpecFields == Init /\ [][NextFields]_vars

RECURSIVE ChainFields(_)
\* the fields added on the way from New to logger i, oldest first
ChainFields(i) ==
    IF origin[i].from = 0 THEN << >> ELSE ChainFields(origin[i].from) \o origin[i].keys

\* the step is a call of WithField, WithError or WithFields
FieldStep == last' # last /\ last'.op \in {"WithField", "WithError", "WithFields"}

\* C5: WithField, WithError and WithFields return a new logger that carries
\* the receiver's fields followed by the added ones and change no existing
\* logger; every entry carries the fields of the logger it was logged through
\* as they were when that logger was made, whatever was derived from it since.
C5_FieldsAreScoped ==
    /\ [][FieldStep =>
            /\ last'.res = Len(loggers) + 1
            /\ loggers'[last'.res].zap.fields = loggers[last'.lg].zap.fields \o last'.keys
            /\ \A i \in DOMAIN loggers : loggers'[i] = loggers[i]]_vars
    /\ [](\A s \in Sinks : \A j \in DOMAIN out[s] :
            out[s][j].lg # 0 => out[s][j].fields = ChainFields(out[s][j].lg))

Fields(s) == [j \in DOMAIN out[s] |-> out[s][j].fields]

\* C5 witness: a logger with field error logs, a child with field key is
\* derived from it and logs, and the logger logs again with field error only
C5_Witness ==
    /\ Len(hist) = 3
    /\ hist[1].lg = hist[3].lg
    /\ origin[hist[2].lg].from = hist[1].lg
    /\ Fields("a.log") = << <<"error">>, <<"error", "key">>, <<"error">> >>

----------------------------------------------------------------------------
(* Outputs *)

Configs == {CfgDefault, CfgFile, CfgBoth, CfgSilent, CfgStdFile, CfgMissing}

NextSinks ==
    \/ Len(loggers) < SinkLoggers /\ \E cfg \in Configs : DoNew(cfg)
    \/ /\ Len(hist) < SinkCalls
       /\ \E i \in Own : DoSetLevel(i, "error")
    \/ /\ Len(hist) < SinkCalls
       /\ \E i \in Own, m \in {"Infof", "Error"} : DoLog(i, m, <<"app/main.go">>, TRUE, FALSE)

SpecSinks == Init /\ [][NextSinks]_vars

\* the files a Config lists
FilesOf(cfg) == { cfg.Files[k] : k \in DOMAIN cfg.Files }

\* C6: an entry a logger of New(cfg) emits is in every file cfg.Files lists,
\* is on stdout exactly when cfg.DisableStdOut is false, and is nowhere else.
C6_SinksFollowConfig ==
    \A k \in DOMAIN hist :
        (hist[k].op = "log" /\ ByNew(hist[k].lg) /\ SinksOf(k) # {}) =>
            LET cfg == origin[Root(hist[k].lg)].cfg IN
            /\ FilesOf(cfg) \subseteq SinksOf(k)
            /\ ("os.Stdout" \in SinksOf(k)) <=> ~cfg.DisableStdOut
            /\ SinksOf(k) \subseteq FilesOf(cfg) \cup {"os.Stdout"}

----------------------------------------------------------------------------
(* Callers *)

CallerStack == <<"app/main.go", "app/run.go", "app/cmd.go">>

\* the methods that return to their caller
PlainMethods == Methods \ (FatalMethods \cup PanicMethods)

NextCaller ==
    \/ Len(loggers) < CallerLoggers /\ DoNew(CfgFile)
    \/ Len(loggers) < CallerLoggers /\ \E i \in Own : DoWithField(i, "key")
    \/ Len(loggers) < CallerLoggers /\ \E i \in Own, n \in {-1, 1} : DoWithCallerSkip(i, n)
    \/ /\ Len(hist) < CallerCalls
       /\ \E i \in Own, m \in PlainMethods : DoLog(i, m, CallerStack, TRUE, FALSE)

SpecCaller == Init /\ [][NextCaller]_vars

RECURSIVE SkipSum(_)
\* the caller skips added by WithCallerSkip on the way from New to logger i
SkipSum(i) == IF origin[i].from = 0 THEN 0 ELSE SkipSum(origin[i].from) + origin[i].skip

\* The Go stack of a call of a wrapper method from user code with frames
\* ustack: zap's method, the wrapper's method, then its caller and up.
GoStack(ustack) == <<"zap/sugar.go", "logger/log.go">> \o ustack \o <<"runtime/proc.go">>

\* the frame n frames above the wrapper method's caller
FrameAbove(ustack, n) ==
    IF 3 + n \in DOMAIN GoStack(ustack) THEN GoStack(ustack)[3 + n] ELSE "undefined"

\* C8: an entry written by a method that returns (Debug, Info, Warn, Warning,
\* Error, Print and their f and ln forms) of a logger of New reports the
\* location that called the method, not one of the wrapper or of zap, and
\* after WithCallerSkip(n) the location n frames further up.
C8_CallerIsTheCaller ==
    \A s \in Sinks : \A j \in DOMAIN out[s] :
        LET e == out[s][j] IN
        (e.lg # 0 /\ ByNew(e.lg) /\ hist[e.id].name \in PlainMethods) =>
            /\ e.caller = FrameAbove(hist[e.id].keys, SkipSum(e.lg))
            /\ SkipSum(e.lg) = 0 =>
                  /\ e.caller = hist[e.id].keys[1]
                  /\ e.caller \notin {"logger/log.go", "zap/sugar.go", "zap/logger.go"}

\* C8 witness: Warningln through a logger with WithCallerSkip(1) reports the
\* caller's caller
C8_Witness ==
    \E j \in DOMAIN out["a.log"] :
        LET e == out["a.log"][j] IN
        /\ origin[e.lg].by = "WithCallerSkip" /\ SkipSum(e.lg) = 1
        /\ hist[e.id].name = "Warningln"
        /\ e.caller = "app/run.go"

====
